---- MODULE Spec2Model ----
(***************************************************************************)
(* Model of smonad.retry: the retry loop f_retry built by retry(), the     *)
(* scripted StoppedClock, the tick counter and the start / progress / end  *)
(* reporting.                                                              *)
(*                                                                         *)
(* A session is one call of the wrapped function f_retry.  Its local       *)
(* variables and its position in the code are the fields of a record.      *)
(* Two sessions are kept: `ses` is wrapped with silent = False and `twin`  *)
(* with silent = True; every other option is the same, and both are fed    *)
(* the same operation results and the same clock samples, so that what     *)
(* `silent` changes can be read off by comparing them.                     *)
(*                                                                         *)
(* Time is counted in whole units.  The operation is any callable that     *)
(* returns Success, Failure or NotReady with a payload; payloads are a     *)
(* str template using {total_time} / {retries}, a formattable value that   *)
(* is not a str, or a value without a format method.                       *)
(***************************************************************************)
EXTENDS Integers, Sequences, FiniteSets, TLC

\* ---------------------------------------------------------------- bounds

\* largest value the clock returns
MaxTime == 6
\* largest timeout option
MaxTimeout == 4
\* largest delay option
MaxDelay == 2
\* number of entries of the StoppedClock script given to set_times
MaxScript == 5
\* number of calls of the wrapped function
MaxCalls == 2
\* number of full lines of progress markers the long session produces
MaxLines == 2
\* largest time a sleep of the system clock overruns by
MaxLag == 1
\* attempts explored of a session whose clock never reaches the deadline
MaxTicks == 6
\* times retry.clock is replaced by another clock object
MaxSwaps == 1

\* retry.py line 174: a newline after every 80 ticks
TicksPerLine == 80

Times == 0..MaxTime
Timeouts == 0..MaxTimeout
\* the shortest and the largest delay
Delays == {1, MaxDelay}

VARIABLES ses, twin, clock

vars == <<ses, twin, clock>>

\* ------------------------------------------------------------ result model

\* payloads an operation puts in its result: .kind is the payload's type
Payloads == {[kind |-> "str"], [kind |-> "unicode"], [kind |-> "object"]}

Tags == {"Success", "Failure", "NotReady"}

\* the values the wrapped operation may return
Results == [tag : Tags, value : Payloads]

\* a local variable that was never assigned
Unbound == [tag |-> "unbound"]

\* isinstance(result, NotReady)
IsNotReady(r) == r.tag = "NotReady"

\* isinstance(result, Failure): NotReady is a subclass of Failure
IsFailure(r) == r.tag \in {"Failure", "NotReady"}

\* smonad.utils.succeeded
succeeded(r) == r.tag = "Success"

\* hasattr(value, 'format')
HasFormat(v) == v.kind \in {"str", "unicode"}

\* isinstance(value, str)
IsStr(v) == v.kind = "str"

\* value.format(total_time=..., retries=...): a new string, never the template
Format(v, total_time, retries) ==
  [tmpl |-> v, total_time |-> total_time, retries |-> retries, suffix |-> ""]

\* text + "  Giving up."
GivingUp(text) == [text EXCEPT !.suffix = "  Giving up."]

\* ------------------------------------------------------------------ output

Dot == [k |-> "dot"]
Newline == [k |-> "nl"]

\* smonad.utils.print_now(msg, err): one message on stdout, or on stderr
print_now(s, msg, err) ==
  IF err THEN [s EXCEPT !.err = Append(@, [k |-> "msg", text |-> msg])]
         ELSE [s EXCEPT !.out = Append(@, [k |-> "msg", text |-> msg])]

\* the start_message option: None, a plain text, a text holding {start_time}
StartMessages == {"None", "plain", "with {start_time}"}

\* the start message printed as given, {start_time} left in it
StartMessageVerbatim(s, start_message, start_time) ==
  print_now(s, [tmpl |-> start_message], FALSE)

\* lines 100-104
print_start_message(s, start_message, start_time) ==
  IF start_message = "with {start_time}"
    THEN print_now(s, [tmpl |-> start_message, start_time |-> start_time], FALSE)
    ELSE print_now(s, [tmpl |-> start_message], FALSE)

\* the end message with the test for Failure before the test for NotReady
EndMessageFailureFirst(s, result, total_time, retry_count) ==
  LET s1 == [s EXCEPT !.out = Append(@, Newline)]
      text == Format(result.value, total_time, retry_count)
  IN IF ~HasFormat(result.value) THEN s1
     ELSE IF succeeded(result) THEN print_now(s1, text, FALSE)
     ELSE IF IsFailure(result) THEN print_now(s1, text, TRUE)
     ELSE print_now(s1, GivingUp(text), TRUE)

\* the end message without the test for a format attribute
EndMessageNoFormatCheck(s, result, total_time, retry_count) ==
  LET s1 == [s EXCEPT !.out = Append(@, Newline)]
      text == Format(result.value, total_time, retry_count)
  IN IF succeeded(result) THEN print_now(s1, text, FALSE)
     ELSE IF IsNotReady(result) THEN print_now(s1, GivingUp(text), TRUE)
     ELSE print_now(s1, text, TRUE)

\* lines 107-119
print_end_message(s, result, total_time, retry_count) ==
  LET s1 == [s EXCEPT !.out = Append(@, Newline)]
      text == Format(result.value, total_time, retry_count)
  IN IF ~HasFormat(result.value) THEN s1
     ELSE IF succeeded(result) THEN print_now(s1, text, FALSE)
     ELSE IF IsNotReady(result) THEN print_now(s1, GivingUp(text), TRUE)
     ELSE print_now(s1, text, TRUE)

\* ------------------------------------------------------------------- clock

\* what StoppedClock.time() does with the next script entry: return its
\* value, or raise the exception the entry carries
ClockReturns(t) == [ok |-> TRUE, t |-> t, exc |-> "none", id |-> 0]
ClockRaises(e) == [ok |-> FALSE, t |-> 0, exc |-> e, id |-> 0]

\* outcomes of one clock.time() call of the clock c: c.left script entries
\* remain, each a value in 0..c.top or an exception to raise
StoppedClock_time(c) ==
  IF c.script = "repeat" THEN {ClockReturns(c.top)}
  ELSE IF c.left = 0 THEN {ClockRaises("StopIteration")}
  ELSE {ClockReturns(t) : t \in 0..c.top} \cup {ClockRaises("Exception")}

\* the clock after the call that had the outcome smp: one entry consumed
StoppedClock_next(c, smp) ==
  [c EXCEPT !.left = IF c.left = 0 \/ c.script = "repeat" THEN @ ELSE c.left - 1,
            !.raised = smp.exc,
            !.value = IF smp.ok THEN smp.t ELSE -1]

\* StoppedClock.sleep: pass
StoppedClock_sleep(c, seconds) == {c}

\* SystemClock.time: time.time(), the time it is
SystemClock_time(c) == {ClockReturns(c.now)}

\* a sleep that may return one unit before the time asked for has passed
SleepReturnsEarly(c, seconds) ==
  {[c EXCEPT !.now = c.now + IF seconds = 0 THEN 0 ELSE seconds - early] :
     early \in 0..MaxLag}

\* SystemClock.sleep: time.sleep(seconds) returns when at least that much
\* time has passed
SystemClock_sleep(c, seconds) ==
  {[c EXCEPT !.now = c.now + seconds + lag] : lag \in 0..MaxLag}

\* what retry.clock replaced when nothing was replaced
NoClock == [kind |-> "none", id |-> -1]

\* a clock object: the kind of clock, the script entries left and the largest
\* value in them (StoppedClock), the time it is (SystemClock), the exception
\* and the value of its latest time() call, and which object it is; prev is
\* the object it replaced as retry.clock
StoppedClock(id, left, top) ==
  [kind |-> "stopped", id |-> id, left |-> left, top |-> top, now |-> 0,
   raised |-> "none", value |-> -1, prev |-> NoClock, script |-> "list"]

\* a StoppedClock whose set_times got an endless iterable of one value t: its
\* script never runs out and its time never changes
FrozenClock(id, t) == [StoppedClock(id, 0, t) EXCEPT !.script = "repeat"]

\* line 79: clock = SystemClock()
SystemClock(id, now) ==
  [kind |-> "system", id |-> id, left |-> 0, top |-> 0, now |-> now,
   raised |-> "none", value |-> -1, prev |-> NoClock, script |-> "none"]

\* clock.time() on the object c: the outcomes, each marked with the object
Clock_time(c) ==
  {[o EXCEPT !.id = c.id] :
     o \in IF c.kind = "system" THEN SystemClock_time(c) ELSE StoppedClock_time(c)}

\* the object c after its time() call had the outcome smp
Clock_next(c, smp) ==
  IF c.kind = "system" THEN [c EXCEPT !.raised = "none", !.value = smp.t]
  ELSE StoppedClock_next(c, smp)

\* clock.sleep(seconds) on the object c: the objects it may be afterwards
Clock_sleep(c, seconds) ==
  IF c.kind = "system" THEN SystemClock_sleep(c, seconds)
  ELSE StoppedClock_sleep(c, seconds)

\* ----------------------------------------------------------------- session

\* the closure retry() builds, before f_retry is called.  The fields up to
\* exc are the options, the position in f_retry, its locals, the value it
\* returned and the exception that left it; out and err are what the session
\* wrote on stdout and stderr; the others record what the session did:
\* calls of f_retry, invocations of the operation, NotReady results, the
\* operation's latest return value, sleeps and seconds slept, clock samples,
\* the first and the latest sample, the samples under the deadline before
\* any sample reached it and the first sample that reached it, and the clock
\* objects that were retry.clock at the call, that gave the latest sample and
\* that slept the latest sleep.
Wrapped(timeout, delay, start_message, silent) ==
  [timeout |-> timeout, delay |-> delay, start_message |-> start_message,
   silent |-> silent,
   pc |-> "idle",
   start_time |-> 0, deadline |-> 0, count |-> 0, current_time |-> 0,
   result |-> Unbound, total_time |-> 0,
   ret |-> Unbound, exc |-> "none",
   out |-> <<>>, err |-> <<>>,
   calls |-> 0, invoked |-> 0, notready |-> 0, opret |-> Unbound,
   sleeps |-> 0, slept |-> 0,
   samples |-> 0, first |-> -1, last |-> -1, below |-> 0, reach |-> -1,
   entered |-> -1, via |-> -1, sleptvia |-> -1]

\* the record of a clock sample t taken by a session with this deadline
Sampled(s, t, deadline) ==
  [s EXCEPT !.samples = @ + 1,
            !.first = IF s.samples = 0 THEN t ELSE @,
            !.last = t,
            !.below = IF s.reach = -1 /\ t < deadline THEN @ + 1 ELSE @,
            !.reach = IF s.reach = -1 /\ ~(t < deadline) THEN t ELSE @]

\* an exception leaves f_retry
Raise(s, e) == [s EXCEPT !.pc = "raised", !.exc = e]

\* the call with the tick counter made once, by retry(), not by each call
EnterKeepsTickCounter(s, smp) ==
  LET s0 == [Wrapped(s.timeout, s.delay, s.start_message, s.silent)
               EXCEPT !.calls = s.calls + 1]
      s1 == [Sampled(s0, smp.t, smp.t + s.timeout)
               EXCEPT !.start_time = smp.t,
                      !.deadline = smp.t + s.timeout,
                      !.count = s.count,
                      !.current_time = smp.t,
                      !.pc = "loop"]
      s2 == [s1 EXCEPT !.entered = smp.id, !.via = smp.id]
  IN IF ~smp.ok THEN Raise([s0 EXCEPT !.entered = smp.id], smp.exc)
     ELSE IF s.start_message # "None" /\ ~s.silent
       THEN print_start_message(s2, s.start_message, smp.t)
       ELSE s2

\* the call with the timeout taken as the deadline itself
EnterDeadlineAbsolute(s, smp) ==
  LET s0 == [Wrapped(s.timeout, s.delay, s.start_message, s.silent)
               EXCEPT !.calls = s.calls + 1]
      s1 == [Sampled(s0, smp.t, s.timeout)
               EXCEPT !.start_time = smp.t,
                      !.deadline = s.timeout,
                      !.count = 0,
                      !.current_time = smp.t,
                      !.pc = "loop"]
      s2 == [s1 EXCEPT !.entered = smp.id, !.via = smp.id]
  IN IF ~smp.ok THEN Raise([s0 EXCEPT !.entered = smp.id], smp.exc)
     ELSE IF s.start_message # "None" /\ ~s.silent
       THEN print_start_message(s2, s.start_message, smp.t)
       ELSE s2

\* lines 157-163: a call of f_retry up to the loop
f_retry_enter(s, smp) ==
  LET s0 == [Wrapped(s.timeout, s.delay, s.start_message, s.silent)
               EXCEPT !.calls = s.calls + 1]
      s1 == [Sampled(s0, smp.t, smp.t + s.timeout)
               EXCEPT !.start_time = smp.t,
                      !.deadline = smp.t + s.timeout,
                      !.count = 0,
                      !.current_time = smp.t,
                      !.pc = "loop"]
      s2 == [s1 EXCEPT !.entered = smp.id, !.via = smp.id]
  IN IF ~smp.ok THEN Raise([s0 EXCEPT !.entered = smp.id], smp.exc)
     ELSE IF s.start_message # "None" /\ ~s.silent
       THEN print_start_message(s2, s.start_message, smp.t)
       ELSE s2

\* the loop condition that tests the start time, never the latest sample
LoopCondStartTime(s) == s.start_time < s.deadline

\* the loop condition with <= for <
LoopCondInclusive(s) == s.current_time <= s.deadline

\* line 165: while current_time < deadline
LoopCond(s) == s.current_time < s.deadline

\* the progress marker with the newline written before the 80th marker
ProgressBreaksFirst(s) ==
  IF s.silent THEN s
  ELSE IF s.count % TicksPerLine = 0
    THEN [s EXCEPT !.out = Append(Append(@, Newline), Dot)]
    ELSE [s EXCEPT !.out = Append(@, Dot)]

\* the progress marker written whatever `silent` is
ProgressIgnoresSilent(s) ==
  LET s1 == [s EXCEPT !.out = Append(@, Dot)]
  IN IF s.count % TicksPerLine = 0
       THEN [s1 EXCEPT !.out = Append(@, Newline)]
       ELSE s1

\* lines 170-176: the progress marker, and a newline after every 80 ticks
Progress(s) ==
  IF s.silent THEN s
  ELSE LET s1 == [s EXCEPT !.out = Append(@, Dot)]
       IN IF s.count % TicksPerLine = 0
            THEN [s1 EXCEPT !.out = Append(@, Newline)]
            ELSE s1

\* the attempt that tests isinstance(result, Failure): a plain Failure is
\* retried like a NotReady
AttemptRetriesFailure(s, r) ==
  LET s1 == [s EXCEPT !.result = r, !.count = @ + 1,
                      !.invoked = @ + 1, !.opret = r]
      s2 == IF IsNotReady(r) THEN [s1 EXCEPT !.notready = @ + 1] ELSE s1
  IN IF IsFailure(r)
       THEN [Progress(s2) EXCEPT !.pc = "sleep"]
       ELSE [s1 EXCEPT !.pc = "end"]

\* the attempt without the else: break
AttemptNeverBreaks(s, r) ==
  LET s1 == [s EXCEPT !.result = r, !.count = @ + 1,
                      !.invoked = @ + 1, !.opret = r]
  IN IF IsNotReady(r)
       THEN [Progress([s1 EXCEPT !.notready = @ + 1]) EXCEPT !.pc = "sleep"]
       ELSE [s1 EXCEPT !.pc = "loop"]

\* the attempt that counts a tick only for a NotReady
AttemptCountsNotReadyOnly(s, r) ==
  LET s1 == [s EXCEPT !.result = r, !.invoked = @ + 1, !.opret = r]
  IN IF IsNotReady(r)
       THEN [Progress([s1 EXCEPT !.count = @ + 1, !.notready = @ + 1])
               EXCEPT !.pc = "sleep"]
       ELSE [s1 EXCEPT !.pc = "end"]

\* lines 166-180: one attempt; r is what the operation returns
f_retry_attempt(s, r) ==
  LET s1 == [s EXCEPT !.result = r, !.count = @ + 1,
                      !.invoked = @ + 1, !.opret = r]
  IN IF IsNotReady(r)
       THEN [Progress([s1 EXCEPT !.notready = @ + 1]) EXCEPT !.pc = "sleep"]
       ELSE [s1 EXCEPT !.pc = "end"]

\* the sleep followed by `continue` with no new clock sample
SleepWithoutSample(s, c) ==
  [s EXCEPT !.sleeps = @ + 1, !.slept = @ + s.delay, !.sleptvia = c.id,
            !.pc = "loop"]

\* line 177: clock.sleep(delay), on the clock object c
f_retry_sleep(s, c) ==
  [s EXCEPT !.sleeps = @ + 1, !.slept = @ + s.delay, !.sleptvia = c.id,
            !.pc = "sample"]

\* the sample inside a try / except that keeps the previous time
SampleSwallowsError(s, smp) ==
  IF ~smp.ok THEN [s EXCEPT !.pc = "loop"]
  ELSE [Sampled(s, smp.t, s.deadline)
          EXCEPT !.current_time = smp.t, !.via = smp.id, !.pc = "loop"]

\* line 178: current_time = clock.time()
f_retry_sample(s, smp) ==
  IF ~smp.ok THEN Raise(s, smp.exc)
  ELSE [Sampled(s, smp.t, s.deadline)
          EXCEPT !.current_time = smp.t, !.via = smp.id, !.pc = "loop"]

\* line 165 when the condition is false: the loop ends on the deadline
f_retry_exit(s) == [s EXCEPT !.pc = "end"]

\* lines 187-188: the text a str payload formats to; f_retry drops it
Formatted(result, total_time, retries) ==
  IF IsStr(result.value) THEN Format(result.value, total_time, retries)
  ELSE result.value

\* f_retry's end with the formatted text stored in the returned result
FinishReturnsFormatted(s) ==
  LET total_time == s.current_time - s.start_time
      s1 == [s EXCEPT !.total_time = total_time]
      s2 == IF ~s.silent
              THEN print_end_message(s1, s.result, total_time, s.count)
              ELSE s1
  IN IF s.result = Unbound THEN Raise(s1, "UnboundLocalError")
     ELSE [s2 EXCEPT !.ret = [s.result EXCEPT
                                !.value = Formatted(s.result, total_time, s.count)],
                     !.pc = "returned"]

\* f_retry's end with `result` set to None before the loop: a call whose loop
\* never ran returns normally, with no Result
FinishWithoutResult(s) ==
  LET total_time == s.current_time - s.start_time
      s1 == [s EXCEPT !.total_time = total_time]
      s2 == IF ~s.silent
              THEN print_end_message(s1, s.result, total_time, s.count)
              ELSE s1
  IN IF s.result = Unbound THEN [s1 EXCEPT !.pc = "returned"]
     ELSE [s2 EXCEPT !.ret = s.result, !.pc = "returned"]

\* lines 182-190: after the loop.  Reading the unassigned local `result`
\* (line 185, or line 187 when silent) raises before anything is written;
\* the text of line 188 is dropped and the result is returned as it is.
f_retry_finish(s) ==
  LET total_time == s.current_time - s.start_time
      s1 == [s EXCEPT !.total_time = total_time]
      s2 == IF ~s.silent
              THEN print_end_message(s1, s.result, total_time, s.count)
              ELSE s1
      dropped == Formatted(s.result, total_time, s.count)
  IN IF s.result = Unbound THEN Raise(s1, "UnboundLocalError")
     ELSE [s2 EXCEPT !.ret = s.result, !.pc = "returned"]

\* ------------------------------------------------------------------- steps

RECURSIVE FirstClock(_)
\* the clock object that was retry.clock before every replacement
FirstClock(c) == IF c.prev = NoClock THEN c ELSE FirstClock(c.prev)

\* the clock bound once, when retry() wrapped the operation
ClockAtWrapTime(s) == FirstClock(clock)

\* lines 157, 177, 178: the session s looks the module's global `clock` up
\* each time it calls clock.time() or clock.sleep()
UsedClock(s) == clock

CanEnter(s) == s.pc \in {"idle", "returned", "raised"} /\ s.calls < MaxCalls
CanAttempt(s) == s.pc = "loop" /\ LoopCond(s)
CanExit(s) == s.pc = "loop" /\ ~LoopCond(s)
CanSleep(s) == s.pc = "sleep"
CanSample(s) == s.pc = "sample"
CanFinish(s) == s.pc = "end"

Init ==
  /\ \E timeout \in Timeouts, delay \in Delays, start_message \in StartMessages :
       /\ ses = Wrapped(timeout, delay, start_message, FALSE)
       /\ twin = Wrapped(timeout, delay, start_message, TRUE)
  /\ clock = StoppedClock(0, MaxScript, MaxTime)

Enter ==
  /\ CanEnter(ses)
  /\ \E smp \in Clock_time(UsedClock(ses)) :
       /\ ses' = f_retry_enter(ses, smp)
       /\ twin' = IF CanEnter(twin) THEN f_retry_enter(twin, smp) ELSE twin
       /\ clock' = Clock_next(clock, smp)

Attempt ==
  /\ CanAttempt(ses)
  /\ \E r \in Results :
       /\ ses' = f_retry_attempt(ses, r)
       /\ twin' = IF CanAttempt(twin) THEN f_retry_attempt(twin, r) ELSE twin
  /\ UNCHANGED clock

Sleep ==
  /\ CanSleep(ses)
  /\ ses' = f_retry_sleep(ses, UsedClock(ses))
  /\ twin' = IF CanSleep(twin) THEN f_retry_sleep(twin, UsedClock(twin)) ELSE twin
  /\ clock' \in Clock_sleep(clock, ses.delay)

Sample ==
  /\ CanSample(ses)
  /\ \E smp \in Clock_time(UsedClock(ses)) :
       /\ ses' = f_retry_sample(ses, smp)
       /\ twin' = IF CanSample(twin) THEN f_retry_sample(twin, smp) ELSE twin
       /\ clock' = Clock_next(clock, smp)

Exit ==
  /\ CanExit(ses)
  /\ ses' = f_retry_exit(ses)
  /\ twin' = IF CanExit(twin) THEN f_retry_exit(twin) ELSE twin
  /\ UNCHANGED clock

Finish ==
  /\ CanFinish(ses)
  /\ ses' = f_retry_finish(ses)
  /\ twin' = IF CanFinish(twin) THEN f_retry_finish(twin) ELSE twin
  /\ UNCHANGED clock

Next == Enter \/ Attempt \/ Sleep \/ Sample \/ Exit \/ Finish

Spec == Init /\ [][Next]_vars

\* ---------------------------------------------- sessions that need not end

\* one call of f_retry on the module's own SystemClock, started at 0 or 1, or
\* on a clock frozen at 0, with any delay from 0 on
InitLive ==
  /\ \E timeout \in Timeouts, delay \in 0..MaxDelay :
       /\ ses = [Wrapped(timeout, delay, "None", FALSE)
                   EXCEPT !.calls = MaxCalls - 1]
       /\ twin = [Wrapped(timeout, delay, "None", TRUE)
                    EXCEPT !.calls = MaxCalls - 1]
  /\ clock \in {SystemClock(0, now) : now \in 0..1} \cup {FrozenClock(0, 0)}

\* an attempt, for as many attempts as are explored
AttemptLive == ses.invoked < MaxTicks /\ Attempt

NextLive == Enter \/ AttemptLive \/ Sleep \/ Sample \/ Exit \/ Finish

\* f_retry runs on its caller's thread: a call that can take a step takes it
SpecLive == InitLive /\ [][NextLive]_vars /\ WF_vars(NextLive)

\* ------------------------------------------- two sessions, steps interleaved

Sessions == {"ses", "twin"}

Of(who) == IF who = "ses" THEN ses ELSE twin

\* the tick counter kept at module level, like the clock: one count for all
PutSharedTickCounter(who, t) ==
  /\ ses' = IF who = "ses" THEN t ELSE [ses EXCEPT !.count = t.count]
  /\ twin' = IF who = "twin" THEN t ELSE [twin EXCEPT !.count = t.count]

\* start_time, deadline, tick_counter, current_time and result are locals of
\* the call of f_retry: a step of one call assigns that call's locals only
Put(who, t) ==
  /\ ses' = IF who = "ses" THEN t ELSE ses
  /\ twin' = IF who = "twin" THEN t ELSE twin

\* two wrapped operations, each called once, on one scripted clock
InitTwo ==
  /\ ses = [Wrapped(1, 1, "None", FALSE) EXCEPT !.calls = MaxCalls - 1]
  /\ twin = [Wrapped(MaxDelay, MaxDelay, "None", TRUE)
               EXCEPT !.calls = MaxCalls - 1]
  /\ clock = StoppedClock(0, MaxScript, MaxDelay)

EnterOne ==
  \E who \in Sessions :
    /\ CanEnter(Of(who))
    /\ \E smp \in Clock_time(UsedClock(Of(who))) :
         /\ Put(who, f_retry_enter(Of(who), smp))
         /\ clock' = Clock_next(clock, smp)

AttemptOne ==
  \E who \in Sessions :
    /\ CanAttempt(Of(who))
    /\ \E r \in Results : Put(who, f_retry_attempt(Of(who), r))
    /\ UNCHANGED clock

SleepOne ==
  \E who \in Sessions :
    /\ CanSleep(Of(who))
    /\ Put(who, f_retry_sleep(Of(who), UsedClock(Of(who))))
    /\ clock' \in Clock_sleep(clock, Of(who).delay)

SampleOne ==
  \E who \in Sessions :
    /\ CanSample(Of(who))
    /\ \E smp \in Clock_time(UsedClock(Of(who))) :
         /\ Put(who, f_retry_sample(Of(who), smp))
         /\ clock' = Clock_next(clock, smp)

ExitOne ==
  \E who \in Sessions :
    /\ CanExit(Of(who))
    /\ Put(who, f_retry_exit(Of(who)))
    /\ UNCHANGED clock

FinishOne ==
  \E who \in Sessions :
    /\ CanFinish(Of(who))
    /\ Put(who, f_retry_finish(Of(who)))
    /\ UNCHANGED clock

NextTwo ==
  EnterOne \/ AttemptOne \/ SleepOne \/ SampleOne \/ ExitOne \/ FinishOne

SpecTwo == InitTwo /\ [][NextTwo]_vars

\* ------------------------------------------------- the clock is replaced

\* the module as imported, clock = SystemClock(), and an operation wrapped
InitSwap ==
  /\ \E timeout \in 1..MaxDelay, delay \in Delays :
       /\ ses = Wrapped(timeout, delay, "None", FALSE)
       /\ twin = Wrapped(timeout, delay, "None", TRUE)
  /\ clock = SystemClock(0, 0)

\* retry.clock = a new StoppedClock with its times set, as the tests do, at
\* any moment: before a call, between two steps of a call, after a call
Substitute ==
  /\ clock.id < MaxSwaps
  /\ clock' = [StoppedClock(clock.id + 1, MaxScript, MaxDelay)
                 EXCEPT !.prev = clock]
  /\ UNCHANGED <<ses, twin>>

NextSwap ==
  Enter \/ Attempt \/ Sleep \/ Sample \/ Exit \/ Finish \/ Substitute

SpecSwap == InitSwap /\ [][NextSwap]_vars

\* a long session, the last call of the wrapped function: the script is long
\* enough for MaxLines full lines of markers and a few more, and holds the
\* values 0 and 1 only, so that with timeout 1 the clock can stay under the
\* deadline for the whole script
InitWrap ==
  /\ ses = [Wrapped(1, 1, "None", FALSE) EXCEPT !.calls = MaxCalls - 1]
  /\ twin = [Wrapped(1, 1, "None", TRUE) EXCEPT !.calls = MaxCalls - 1]
  /\ clock = StoppedClock(0, MaxLines * TicksPerLine + 2, 1)

SpecWrap == InitWrap /\ [][Next]_vars

\* ------------------------------------------------------------------ claims

\* the number of progress markers a session has written
Dots(s) == Cardinality({i \in DOMAIN s.out : s.out[i] = Dot})

\* the session's first attempt returned Success or plain Failure
FirstAttemptFinal(s) == s.invoked >= 1 /\ s.notready = 0

\* every attempt of the session so far returned NotReady
AllNotReady(s) == s.invoked >= 1 /\ s.notready = s.invoked

\* the session's latest attempt returned Success or plain Failure
GotFinal(s) == s.invoked >= 1 /\ ~IsNotReady(s.opret)

C1_Session(s) ==
  FirstAttemptFinal(s) =>
    /\ s.invoked = 1
    /\ s.pc \in {"end", "returned"}
    /\ s.result = s.opret
    /\ s.pc = "returned" => s.ret = s.opret

\* C1: in every configuration (timeout, delay, start_message, silent), a
\* session whose first attempt returned Success or plain Failure has invoked
\* the operation exactly once, raises nothing, and returns exactly the value
\* the operation returned.
C1_FirstFinalOnce == C1_Session(ses) /\ C1_Session(twin)

\* a plain Failure on the first attempt was returned, by the silent and by the
\* non-silent session
C1_Witness ==
  /\ ses.pc = "returned" /\ ses.invoked = 1 /\ ses.ret.tag = "Failure"
  /\ twin.pc = "returned" /\ twin.invoked = 1 /\ twin.ret.tag = "Failure"
  /\ ses.start_message # "None"

C2_Session(s) ==
  AllNotReady(s) /\ s.reach # -1 =>
    /\ s.pc \in {"loop", "end", "returned"}
    /\ s.exc = "none"
    /\ s.count = s.below
    /\ s.pc = "returned" =>
         /\ s.ret = s.opret
         /\ IsNotReady(s.ret)
         /\ s.total_time = s.reach - s.first

\* C2: in a session whose attempts all returned NotReady, once a clock sample
\* has reached start + timeout no exception is raised, the attempt count is
\* the number of samples taken before that sample, and the session returns
\* the last NotReady with total_time = that sample minus the first sample.
C2_DeadlineReturnsNotReady == C2_Session(ses) /\ C2_Session(twin)

\* the test's scenario in units of 50 s, start sample moved to 0: samples
\* 0, 1, 2, 3, 6 with timeout 4 give NotReady, 4 attempts, total_time 6
C2_Witness ==
  /\ ses.pc = "returned" /\ ses.timeout = 4 /\ ses.first = 0 /\ ses.reach = 6
  /\ ses.samples = 5 /\ IsNotReady(ses.ret) /\ ses.count = 4
  /\ ses.total_time = 6

C3_Session(s) ==
  s.pc = "returned" /\ ~IsNotReady(s.opret) =>
    /\ s.ret = s.opret
    /\ s.invoked = s.notready + 1
    /\ s.count = s.invoked
    /\ s.samples = s.notready + 1
    /\ s.below = s.samples
    /\ s.total_time = s.last - s.first

\* C3: a session that got k NotReady results and then Success or plain
\* Failure returns that result with attempt count k + 1 = the number of
\* invocations, after k + 1 clock samples all under the deadline, and
\* total_time = the (k+1)-th sample minus the first sample.
C3_FinalAfterNotReady == C3_Session(ses) /\ C3_Session(twin)

\* the test's scenario in units of 50 s: two NotReady, then Success on the
\* third attempt, total_time 2
C3_Witness ==
  /\ ses.pc = "returned" /\ ses.ret.tag = "Success" /\ ses.timeout = 4
  /\ ses.notready = 2 /\ ses.count = 3 /\ ses.total_time = 2

\* a step of a session that already got Success or plain Failure
C4_Stopped(s, t) ==
  GotFinal(s) /\ t.calls = s.calls =>
    /\ t.invoked = s.invoked
    /\ t.sleeps = s.sleeps
    /\ t.samples = s.samples
    /\ Dots(t) = Dots(s)

\* a step that invokes the operation again in the same session
C4_Retried(s, t) ==
  t.calls = s.calls /\ s.invoked >= 1 /\ t.invoked > s.invoked =>
    IsNotReady(s.opret)

\* C4: once an attempt returned Success or plain Failure, no step of that
\* session invokes the operation, sleeps, samples the clock or writes a
\* progress marker; an attempt after the first follows a NotReady only.
C4_FinalStopsLoop ==
  [][/\ C4_Stopped(ses, ses') /\ C4_Stopped(twin, twin')
     /\ C4_Retried(ses, ses') /\ C4_Retried(twin, twin')]_vars

\* a session that retried twice, then got a plain Failure and returned it
C4_Witness ==
  /\ ses.pc = "returned" /\ ses.ret.tag = "Failure" /\ ses.notready = 2
  /\ ses.invoked = 3 /\ ses.sleeps = 2 /\ ses.samples = 3

\* the start message is the first thing a non-silent session writes, once it
\* has its first clock sample
StartLen(s) ==
  IF s.start_message # "None" /\ ~s.silent /\ s.samples >= 1 THEN 1 ELSE 0

\* the end message as the session's own samples and invocations give it
EndText(s) == Format(s.opret.value, s.last - s.first, s.invoked)

\* the messages on stdout after the start message
OutMessages(s) ==
  {i \in (StartLen(s) + 1)..Len(s.out) : s.out[i].k = "msg"}

C5_Invoked(s, t) ==
  t.invoked > s.invoked =>
    /\ s.current_time = s.last
    /\ s.last < s.first + s.timeout

C5_Reached(s) ==
  s.reach # -1 /\ s.invoked >= 1 =>
    /\ IsNotReady(s.opret)
    /\ s.result = s.opret
    /\ s.count = s.below
    /\ s.pc \in {"loop", "end", "returned"}
    /\ s.pc = "returned" => s.ret = s.opret

\* C5: every invocation of the operation happens in a state whose latest
\* clock sample, current_time, is under first sample + timeout; and once a
\* sample has reached the deadline after some attempt, no further attempt is
\* made and the result, returned at the end, is the last NotReady obtained.
C5_NoAttemptAfterDeadline ==
  /\ [](C5_Reached(ses) /\ C5_Reached(twin))
  /\ [][C5_Invoked(ses, ses') /\ C5_Invoked(twin, twin')]_vars

\* the loop has just ended on the deadline, after three attempts
C5_Witness ==
  /\ ses.pc = "end" /\ ses.invoked = 3 /\ ses.reach = ses.deadline
  /\ ses.current_time = ses.deadline /\ IsNotReady(ses.result)

\* C6: a non-silent session that returns a result with a formattable payload
\* has written its end message, formatted with the session's total time and
\* attempt count, once: a Success on stdout, a NotReady on stderr with
\* "  Giving up." appended, a plain Failure on stderr with no suffix.
C6_EndMessageRouting ==
  ses.pc = "returned" /\ HasFormat(ses.ret.value) =>
    LET last == ses.out[Len(ses.out)]
    IN /\ succeeded(ses.ret) =>
            /\ last = [k |-> "msg", text |-> EndText(ses)]
            /\ OutMessages(ses) = {Len(ses.out)}
            /\ ses.err = <<>>
       /\ IsNotReady(ses.ret) =>
            /\ IsFailure(ses.ret)
            /\ ses.err = <<[k |-> "msg", text |-> GivingUp(EndText(ses))]>>
            /\ ses.err[1].text.suffix = "  Giving up."
            /\ OutMessages(ses) = {}
       /\ ses.ret.tag = "Failure" =>
            /\ ses.err = <<[k |-> "msg", text |-> EndText(ses)]>>
            /\ ses.err[1].text.suffix = ""
            /\ OutMessages(ses) = {}

\* the test's scenario in units of 50 s: NotReady at the deadline, the message
\* "... after 6 (300 s) ... and 4 retries  Giving up." on stderr
C6_Witness ==
  /\ ses.pc = "returned" /\ IsNotReady(ses.ret) /\ ses.ret.value.kind = "str"
  /\ ses.timeout = 4
  /\ ses.err = <<[k |-> "msg",
                  text |-> [tmpl |-> ses.ret.value, total_time |-> 6,
                            retries |-> 4, suffix |-> "  Giving up."]]>>

\* what the loop of a session has written on stdout: everything after the
\* start message and before the newline print_end_message begins with
Marks(s) ==
  LET n == Len(s.out)
      stop == IF s.pc # "returned" THEN n
              ELSE IF s.out[n].k = "msg" THEN n - 2 ELSE n - 1
  IN SubSeq(s.out, StartLen(s) + 1, stop)

\* n markers in lines of TicksPerLine, each full line closed by a newline
WrappedMarks(n) ==
  [p \in 1..(n + n \div TicksPerLine) |->
     IF p % (TicksPerLine + 1) = 0 THEN Newline ELSE Dot]

\* C7: at every point of a non-silent session the markers written are as
\* many as the NotReady results received, and the loop's output is those
\* markers with a newline after every 80th, counted over the whole session.
C7_MarkersWrapAt80 ==
  /\ Dots(ses) = ses.notready
  /\ Marks(ses) = WrappedMarks(ses.notready)

\* MaxLines full lines and one more marker have been written
C7_Witness ==
  /\ ses.notready = MaxLines * TicksPerLine + 1
  /\ ses.out[TicksPerLine] = Dot
  /\ ses.out[TicksPerLine + 1] = Newline
  /\ ses.out[TicksPerLine + 2] = Dot
  /\ Len(ses.out) = MaxLines * (TicksPerLine + 1) + 1

\* everything of a session but its silent option and what it wrote
Control(s) == [s EXCEPT !.silent = FALSE, !.out = <<>>, !.err = <<>>]

\* C8: the silent session writes nothing on stdout or stderr, and its
\* position, locals, result, attempt count, sleeps and clock samples are at
\* every step those of the non-silent session fed the same inputs.
C8_SilentWritesNothing ==
  /\ twin.silent /\ ~ses.silent
  /\ twin.out = <<>>
  /\ twin.err = <<>>
  /\ Control(twin) = Control(ses)

\* both sessions returned after two NotReady; the non-silent one wrote a
\* start message, two markers, and an end message on stderr
C8_Witness ==
  /\ ses.pc = "returned" /\ twin.pc = "returned" /\ twin.ret = ses.ret
  /\ ses.notready = 2 /\ twin.sleeps = 2 /\ Dots(ses) = 2
  /\ ses.start_message # "None" /\ ses.out[1].k = "msg"
  /\ Len(ses.err) = 1 /\ twin.out = <<>>

C9_Session(s) ==
  /\ s.pc = "raised"
  /\ s.exc = clock.raised
  /\ s.ret = Unbound
  /\ s.err = <<>>
  /\ OutMessages(s) = {}
  /\ Len(s.out) = StartLen(s) + Dots(s) + Dots(s) \div TicksPerLine

\* C9: when a clock sample raised, at entry or after a sleep, f_retry is left
\* by that exception: nothing is returned, no end message or newline is
\* written, and the session makes no further step.
C9_ClockErrorPropagates ==
  clock.raised # "none" => C9_Session(ses) /\ C9_Session(twin)

\* the clock raised on the sample after the second sleep
C9_Witness ==
  /\ clock.raised = "Exception" /\ ses.pc = "raised" /\ ses.exc = "Exception"
  /\ ses.invoked = 2 /\ ses.sleeps = 2 /\ ses.samples = 2

C10_Session(s) ==
  s.pc = "returned" =>
    /\ s.ret = s.opret
    /\ s.ret \in Results
    /\ \A i \in OutMessages(s) : s.out[i].text.tmpl = s.ret.value
    /\ \A i \in DOMAIN s.err : s.err[i].text.tmpl = s.ret.value

\* C10: a session that returns returns the value of the operation's last
\* invocation, variant and payload as the operation built them; the text
\* formatted from the payload is in the end message only.
C10_ReturnedUnmodified == C10_Session(ses) /\ C10_Session(twin)

\* a Success with a str template returned after a retry; the formatted text
\* went to stdout and the returned payload is still the template
C10_Witness ==
  /\ ses.pc = "returned" /\ ses.ret.tag = "Success" /\ ses.notready = 1
  /\ ses.ret.value = [kind |-> "str"]
  /\ ses.out[Len(ses.out)].text = Format(ses.ret.value, ses.total_time, 2)
  /\ twin.ret = ses.ret

\* a call of the wrapped function has begun and has its first clock sample
C11_NewCall(s, t) ==
  t.calls = s.calls + 1 /\ t.pc = "loop" =>
    /\ t.count = 0
    /\ t.invoked = 0
    /\ t.result = Unbound
    /\ t.start_time = clock'.value
    /\ t.current_time = t.start_time
    /\ t.deadline = t.start_time + t.timeout
    /\ Len(t.out) = StartLen(t)
    /\ t.err = <<>>

\* what a session counts is its own
C11_Own(s) ==
  /\ s.count = s.invoked
  /\ s.pc = "returned" => s.total_time = s.last - s.first
  /\ ~s.silent /\ s.samples >= 1 => Marks(s) = WrappedMarks(s.notready)

\* C11: every call of the wrapped function, the first and the ones after a
\* completed call, starts with attempt count 0, no result, a start time just
\* read from the clock and the deadline start time + timeout; its attempt
\* count, total time and markers are those of its own invocations and
\* samples, whatever the call before did.
C11_FreshSession ==
  /\ [](C11_Own(ses) /\ C11_Own(twin))
  /\ [][C11_NewCall(ses, ses') /\ C11_NewCall(twin, twin')]_vars

\* the second call returned after one attempt; the first call had taken three
\* samples, so at least two attempts
C11_Witness ==
  /\ ses.calls = 2 /\ ses.pc = "returned" /\ ses.count = 1 /\ ses.samples = 1
  /\ clock.left = MaxScript - 4 /\ ses.total_time = 0

\* the deadline had passed at the first sample: timeout <= 0
DeadlinePassedAtEntry(s) == s.samples >= 1 /\ ~(s.first < s.first + s.timeout)

C12_Session(s) ==
  DeadlinePassedAtEntry(s) /\ s.pc \in {"end", "returned", "raised"} =>
    s.invoked = 1

\* C12: a session whose deadline had passed before the first attempt
\* (timeout <= 0) has invoked the operation once when its loop is over.
C12_InvokedOnceAnyway == C12_Session(ses) /\ C12_Session(twin)

C13_Session(s) ==
  DeadlinePassedAtEntry(s) =>
    /\ s.invoked = 0
    /\ s.result = Unbound
    /\ s.ret = Unbound
    /\ s.pc \in {"loop", "end", "raised"}
    /\ s.pc = "raised" => s.exc = "UnboundLocalError"
    /\ s.err = <<>>
    /\ Len(s.out) = StartLen(s)

\* C13: a session whose deadline had passed at its first sample (timeout <=
\* 0) never invokes the operation, has no result and never returns: it is
\* left by the error of reading the unassigned result, with no end message.
C13_NoResultIsAnError == C13_Session(ses) /\ C13_Session(twin)

\* timeout 0: the silent and the non-silent call both ended in the error
C13_Witness ==
  /\ ses.timeout = 0 /\ ses.pc = "raised" /\ ses.exc = "UnboundLocalError"
  /\ twin.pc = "raised" /\ twin.exc = "UnboundLocalError"
  /\ ses.invoked = 0 /\ ses.start_message # "None" /\ Len(ses.out) = 1

\* the start message of a session, {start_time} replaced by its first sample
StartText(s) ==
  IF s.start_message = "with {start_time}"
    THEN [tmpl |-> s.start_message, start_time |-> s.first]
    ELSE [tmpl |-> s.start_message]

\* the places of a channel that hold a start message: a message that is not
\* a formatted result payload
StartMessagesIn(ch) ==
  {i \in DOMAIN ch : ch[i].k = "msg" /\ "suffix" \notin DOMAIN ch[i].text}

C14_Session(s) ==
  /\ s.start_message # "None" /\ ~s.silent /\ s.samples >= 1 =>
       /\ StartMessagesIn(s.out) = {1}
       /\ s.out[1] = [k |-> "msg", text |-> StartText(s)]
       /\ s.start_message = "with {start_time}" =>
            s.out[1].text.start_time = s.start_time
       /\ s.invoked = 0 /\ s.pc = "loop" => Len(s.out) = 1
  /\ s.start_message = "None" \/ s.silent \/ s.samples = 0 =>
       StartMessagesIn(s.out) = {}
  /\ StartMessagesIn(s.err) = {}

\* C14: a session with a start message configured and silent false has
\* written it once, as the first thing on stdout, from its first clock sample
\* on and so before the first invocation, with {start_time} replaced by the
\* session's start time; a session with no start message, or silent, or with
\* no clock sample yet, has written no start message.
C14_StartMessageOnce == C14_Session(ses) /\ C14_Session(twin)

\* start message with the start time 1 in it, operation invoked twice since
C14_Witness ==
  /\ ses.start_message = "with {start_time}" /\ ses.invoked = 2
  /\ ses.start_time = 1 /\ ses.pc = "returned"
  /\ ses.out[1].text.start_time = 1 /\ StartMessagesIn(ses.out) = {1}
  /\ twin.out = <<>>

\* how many newlines a channel holds
Newlines(ch) == Cardinality({i \in DOMAIN ch : ch[i] = Newline})

\* C15: a non-silent session that returns a result whose payload has no
\* format attribute has written, after the loop, one newline on stdout and
\* no end message on stdout or stderr, whatever the kind of the result, and
\* has returned the operation's result.
C15_NoTemplateNoEndMessage ==
  ses.pc = "returned" /\ ~HasFormat(ses.ret.value) =>
    /\ ses.out[Len(ses.out)] = Newline
    /\ Len(ses.out) = StartLen(ses) + Len(WrappedMarks(ses.notready)) + 1
    /\ Newlines(ses.out) = ses.notready \div TicksPerLine + 1
    /\ OutMessages(ses) = {}
    /\ ses.err = <<>>
    /\ ses.ret = ses.opret /\ ses.ret.tag \in Tags

\* a NotReady with an object payload returned on the deadline: start message,
\* two markers and the newline on stdout, nothing on stderr
C15_Witness ==
  /\ ses.pc = "returned" /\ IsNotReady(ses.ret)
  /\ ses.ret.value.kind = "object" /\ ses.notready = 2
  /\ ses.start_message = "plain" /\ Len(ses.out) = 4 /\ ses.err = <<>>

\* the counts of a session at each place of its loop
C16_Counts(s) ==
  /\ s.slept = s.sleeps * s.delay
  /\ s.pc = "sleep" =>
       /\ s.sleeps = s.notready - 1 /\ s.samples = s.notready
       /\ ~s.silent => Dots(s) = s.notready
  /\ s.pc = "sample" => s.sleeps = s.notready /\ s.samples = s.notready
  /\ s.pc \in {"loop", "end", "returned"} =>
       s.sleeps = s.notready /\ s.samples = s.notready + 1
  /\ s.pc = "raised" /\ s.exc = "UnboundLocalError" =>
       s.sleeps = s.notready /\ s.samples = s.notready + 1

\* the steps of a session inside one call
C16_Order(s, t) ==
  t.calls = s.calls =>
    /\ t.notready # s.notready =>
         /\ t.pc = "sleep" /\ t.sleeps = s.sleeps /\ t.samples = s.samples
         /\ ~s.silent => Dots(t) = Dots(s) + 1
    /\ t.sleeps # s.sleeps =>
         /\ s.pc = "sleep" /\ t.pc = "sample"
         /\ t.sleeps = s.sleeps + 1 /\ t.slept = s.slept + s.delay
         /\ t.samples = s.samples /\ t.out = s.out
    /\ t.samples # s.samples =>
         /\ s.pc = "sample" /\ t.pc = "loop"
         /\ t.samples = s.samples + 1 /\ t.sleeps = s.sleeps
         /\ t.current_time = t.last
    /\ t.invoked # s.invoked =>
         t.samples = s.samples /\ t.current_time = s.current_time

\* C16: each NotReady result is followed, in this order, by the progress
\* marker, one sleep of `delay` and one clock sample, also when that sample
\* reaches the deadline; a session that is back at the loop test, or over,
\* has slept as often as it received NotReady and has sampled the clock once
\* more than that; an invocation of the operation takes no clock sample.
C16_SleepAndSamplePerNotReady ==
  /\ [](C16_Counts(ses) /\ C16_Counts(twin))
  /\ [][C16_Order(ses, ses') /\ C16_Order(twin, twin')]_vars

\* the test's scenario: four NotReady, the last sample reaches the deadline
C16_Witness ==
  /\ ses.pc = "returned" /\ IsNotReady(ses.ret) /\ ses.notready = 4
  /\ ses.sleeps = 4 /\ ses.samples = 5 /\ ses.delay = MaxDelay
  /\ ses.slept = 4 * MaxDelay /\ ses.last >= ses.deadline

\* the "  Giving up." messages of a channel
GivingUpIn(ch) ==
  {i \in DOMAIN ch : /\ ch[i].k = "msg"
                     /\ "suffix" \in DOMAIN ch[i].text
                     /\ ch[i].text.suffix = "  Giving up."}

\* how the loop of a session with timeout > 0 ends
C17_LoopEnd(s, t) ==
  s.timeout > 0 /\ s.pc = "loop" /\ t.pc = "end" =>
    /\ t.invoked = s.invoked => IsNotReady(t.result) /\ ~LoopCond(s)
    /\ t.invoked # s.invoked => ~IsNotReady(t.result) /\ LoopCond(s)

C17_Returned(s) ==
  s.timeout > 0 /\ s.pc = "returned" =>
    /\ s.total_time = s.last - s.first
    /\ IsNotReady(s.ret) <=> s.reach # -1
    /\ IsNotReady(s.ret) => s.total_time >= s.timeout
    /\ s.ret.tag \in {"Success", "Failure"} <=> s.reach = -1
    /\ s.ret.tag \in {"Success", "Failure"} => s.total_time < s.timeout
    /\ GivingUpIn(s.out) = {}
    /\ GivingUpIn(s.err) # {} => s.total_time >= s.timeout

\* C17: with timeout > 0 the loop ends on the deadline test exactly with a
\* NotReady as the result and by break exactly with a Success or plain
\* Failure; a returned NotReady has total_time >= timeout, a returned Success
\* or plain Failure has total_time < timeout, and "  Giving up." is written
\* only in a session whose total_time has reached the timeout.
C17_ResultMatchesExit ==
  /\ [](C17_Returned(ses) /\ C17_Returned(twin))
  /\ [][C17_LoopEnd(ses, ses') /\ C17_LoopEnd(twin, twin')]_vars

\* started at 1, timeout 2: the sample 3 reaches the deadline exactly, the
\* NotReady is returned with total_time = timeout and "  Giving up." written
C17_Witness ==
  /\ ses.pc = "returned" /\ ses.timeout = 2 /\ ses.start_time = 1
  /\ IsNotReady(ses.ret) /\ ses.total_time = 2 /\ GivingUpIn(ses.err) = {1}

\* DONE: the loop of the session is over
Done(s) ==
  \/ s.pc \in {"end", "returned"}
  \/ s.pc = "raised" /\ s.exc = "UnboundLocalError"

\* the least n with n * b >= a, for a >= 0 and b > 0
CeilDiv(a, b) == (a + b - 1) \div b

\* delay > 0 on a clock whose sleep lasts at least the time asked for
Advancing(s) == s.delay > 0 /\ clock.kind = "system"

\* each sample taken after a sleep is at least `delay` after the one before
C18_Advances(s, t) ==
  Advancing(s) /\ s.pc = "sample" /\ t.pc = "loop" =>
    t.current_time >= s.current_time + s.delay

C18_Bound(s) == Advancing(s) => s.invoked <= CeilDiv(s.timeout, s.delay)

\* the latest sample is no later than the first and the operation has
\* returned nothing but NotReady
StuckSoFar(s) ==
  s.samples >= 1 /\ s.last = s.first /\ s.notready = s.invoked

C18_FrozenWitness ==
  /\ clock.script = "repeat" /\ ses.delay = 0 /\ ses.timeout > 0
  /\ ses.invoked = MaxTicks /\ ses.notready = MaxTicks /\ ses.pc = "loop"

\* what a session holds is made of its own samples and its own invocations
C19_Own(s) ==
  /\ s.count = s.invoked
  /\ s.samples >= 1 =>
       /\ s.start_time = s.first
       /\ s.deadline = s.start_time + s.timeout
       /\ s.current_time = s.last
  /\ s.invoked >= 1 => s.result = s.opret
  /\ s.pc = "returned" => s.ret = s.opret /\ s.total_time = s.last - s.first

\* script entries a session took without getting a sample: the one that
\* made its time() call raise
Failed(s) == IF s.pc = "raised" /\ s.exc = "Exception" THEN 1 ELSE 0

\* C19: of two sessions whose steps interleave on one scripted clock, each
\* has its own start_time, deadline, attempt count and result, made of its
\* own clock samples and of the invocations of its own operation; a step of
\* one session leaves the other session as it was; and each entry of the
\* clock's script goes to the one session that asked for it.
C19_SessionsShareOnlyTheClock ==
  /\ [](C19_Own(ses) /\ C19_Own(twin))
  /\ [][ses' = ses \/ twin' = twin]_vars
  /\ [](MaxScript - clock.left =
          ses.samples + twin.samples + Failed(ses) + Failed(twin))
  /\ [][clock'.left # clock.left =>
          \/ ses'.samples = ses.samples + 1 \/ Failed(ses') = Failed(ses) + 1
          \/ twin'.samples = twin.samples + 1
          \/ Failed(twin') = Failed(twin) + 1]_vars

\* both sessions under way: the first has made one attempt and is about to
\* sample, the second has made two and is about to sleep; three script
\* entries are used, the second one by the second session
C19_Witness ==
  /\ ses.pc = "sample" /\ ses.invoked = 1 /\ ses.samples = 1
  /\ twin.pc = "sleep" /\ twin.invoked = 2 /\ twin.samples = 2
  /\ clock.left = MaxScript - 3
  /\ ses.start_time = 0 /\ twin.start_time = 1 /\ twin.deadline = 1 + MaxDelay

\* the clock calls of a step of a session go to the object that is
\* retry.clock when the step is taken
C20_Uses(s, t) ==
  /\ t.calls # s.calls =>
       /\ t.entered = clock.id
       /\ t.pc = "loop" => t.via = clock.id /\ t.start_time = clock'.value
  /\ t.calls = s.calls /\ t.samples # s.samples =>
       t.via = clock.id /\ t.current_time = clock'.value
  /\ t.calls = s.calls /\ t.sleeps # s.sleeps => t.sleptvia = clock.id
  /\ \/ t.calls # s.calls
     \/ t.samples # s.samples
     \/ t.pc = "raised" /\ s.pc # "raised" /\ t.exc # "UnboundLocalError"
     =>
       /\ clock'.id = clock.id
       /\ clock.kind = "stopped" =>
            clock'.left = clock.left - 1 \/ t.exc = "StopIteration"
       /\ clock.kind = "system" => t.last = clock.now

\* a session keeps no clock of its own: between two of its clock calls the
\* object it used last may no longer be retry.clock
C20_Held(s) ==
  /\ s.samples >= 1 => s.via \in 0..clock.id /\ s.entered <= s.via
  /\ s.sleeps >= 1 => s.sleptvia \in s.entered..clock.id

C20_WitnessBeforeCall ==
  /\ ses.calls = 1 /\ ses.pc = "returned" /\ ses.entered = 1 /\ ses.via = 1
  /\ ses.sleptvia = 1 /\ ses.samples = 3 /\ clock.left = MaxScript - 3

====
